---- MODULE Spec2Model ----
(***************************************************************************)
(* localMind: the text chunker (localmind/ingest.py, _chunk_text), the     *)
(* ingestion pipeline (ingest_paths, ingest_files_in_memory) and the       *)
(* retriever (localmind/rag.py, retrieve).                                 *)
(*                                                                         *)
(* A text is a sequence of one-character strings.  Three specifications    *)
(* share the module: SpecChunk runs _chunk_text on every bounded text and  *)
(* configuration, SpecIngest runs one ingestion invocation over a small    *)
(* file system, SpecRetrieve runs one retrieve call against a store.       *)
(***************************************************************************)
EXTENDS Integers, Sequences, FiniteSets, TLC

VARIABLES
    \* _chunk_text
    text,           \* the argument text
    chunk_size,     \* the argument chunk_size
    overlap,        \* the argument overlap
    chunks,         \* the working list `chunks`
    level,          \* index of the next separator of `separators` to apply
    cpc,            \* position in _chunk_text: "call", "loop", "returned", "idle"
    \* ingest_paths / ingest_files_in_memory
    fn,             \* which entry point runs
    inputs,         \* the batch: paths, or uploads
    pos,            \* index of the next input of the batch
    errors,         \* the list `errors`
    all_ids,        \* the list `all_ids`
    all_chunks,     \* the list `all_chunks`
    all_metadatas,  \* the list `all_metadatas`
    storeUp,        \* the storage collaborator: "up", "down", or "embed_down" (opens, cannot embed)
    storeOps,       \* the storage operations performed so far, in order
    ipc,            \* position in the invocation: "open", "loop", "finish", "returned", "raised", "idle"
    result,         \* how the invocation ended: a return of (chunks_added, errors), or a raise
    \* retrieve
    top_k,          \* the argument top_k
    stored,         \* the texts the collection holds, best match first
    n_seen,         \* the value of the first collection.count()
    queries,        \* the n_results of every collection.query call made
    rpc,            \* position in retrieve: "open", "count", "query", "returned", "raised", "idle"
    retrieved       \* the returned list

chunkVars == <<text, chunk_size, overlap, chunks, level, cpc>>
ingestVars == <<fn, inputs, pos, errors, all_ids, all_chunks, all_metadatas, storeUp, storeOps, ipc, result>>
retrieveVars == <<top_k, stored, n_seen, queries, rpc, retrieved>>
vars == <<chunkVars, ingestVars, retrieveVars>>

(***************************************************************************)
(* Bounds of the model.                                                    *)
(***************************************************************************)
MaxLen == 5
MaxSize == 4
MaxBatch == 2
MaxTopK == 3
MaxStored == 3

(***************************************************************************)
(* Characters and strings.                                                 *)
(***************************************************************************)
Char == {"a", "b", " ", "\n", "."}

\* The characters str.strip() removes and \s matches.
Whitespace == {" ", "\n"}

RECURSIVE TextsOfLen(_)
TextsOfLen(n) ==
    IF n = 0 THEN {<<>>}
    ELSE {Append(t, ch) : t \in TextsOfLen(n - 1), ch \in Char}

Texts == UNION {TextsOfLen(n) : n \in 0..MaxLen}

RECURSIVE lstrip(_)
lstrip(s) ==
    IF s = <<>> THEN s
    ELSE IF Head(s) \in Whitespace THEN lstrip(Tail(s)) ELSE s

RECURSIVE rstrip(_)
rstrip(s) ==
    IF s = <<>> THEN s
    ELSE IF s[Len(s)] \in Whitespace THEN rstrip(SubSeq(s, 1, Len(s) - 1)) ELSE s

\* str.strip()
strip(s) == rstrip(lstrip(s))

\* min(a, b)
Min2(a, b) == IF a < b THEN a ELSE b

StartsWith(s, p) == Len(p) <= Len(s) /\ SubSeq(s, 1, Len(p)) = p

\* str.split(sep), sep not empty: the leftmost non-overlapping occurrences.
RECURSIVE SplitAcc(_, _, _)
SplitAcc(s, sep, cur) ==
    IF s = <<>> THEN <<cur>>
    ELSE IF StartsWith(s, sep)
         THEN <<cur>> \o SplitAcc(SubSeq(s, Len(sep) + 1, Len(s)), sep, <<>>)
         ELSE SplitAcc(Tail(s), sep, Append(cur, Head(s)))

split(s, sep) == SplitAcc(s, sep, <<>>)

\* re.split(r"\s+", s): a run of whitespace is one separator; leading and
\* trailing whitespace leave an empty first or last part.
RECURSIVE ReSplitAcc(_, _, _)
ReSplitAcc(s, cur, inRun) ==
    IF s = <<>> THEN <<cur>>
    ELSE IF Head(s) \in Whitespace
         THEN IF inRun THEN ReSplitAcc(Tail(s), cur, TRUE)
              ELSE <<cur>> \o ReSplitAcc(Tail(s), <<>>, TRUE)
         ELSE ReSplitAcc(Tail(s), Append(cur, Head(s)), FALSE)

re_split(s) == ReSplitAcc(s, <<>>, FALSE)

(***************************************************************************)
(* _chunk_text                                                             *)
(***************************************************************************)
separators == << <<"\n", "\n">>, <<"\n">>, <<".", " ">>, <<" ">> >>

\* parts = c.split(sep) if sep != " " else re.split(r"\s+", c)
Parts(c, sep) == IF sep # <<" ">> THEN split(c, sep) ELSE re_split(c)

\* AddOf with the separator never re-appended.
AddOf_DropsSeparator(parts, i, sep) == parts[i]

\* add = part if sep == " " else (part + (sep if i < len(parts) - 1 else ""))
AddOf(parts, i, sep) ==
    IF sep = <<" ">> THEN parts[i]
    ELSE parts[i] \o (IF i < Len(parts) THEN sep ELSE <<>>)

\* overlap_start = "" if overlap <= 0 else current[-overlap:] if len(current) >= overlap else current
OverlapStart(current, ov) ==
    IF ov <= 0 THEN <<>>
    ELSE IF Len(current) >= ov
         THEN SubSeq(current, Len(current) - ov + 1, Len(current))
         ELSE current

\* The loop `for i, part in enumerate(parts)` from part i on, and the final
\* `if current.strip(): new_chunks.append(current.strip())`.
RECURSIVE PackParts(_, _, _, _, _, _, _)
PackParts(parts, i, sep, size, ov, current, out) ==
    IF i > Len(parts)
    THEN IF strip(current) # <<>> THEN Append(out, strip(current)) ELSE out
    ELSE LET add == AddOf(parts, i, sep) IN
         IF Len(current) + Len(add) <= size
         THEN PackParts(parts, i + 1, sep, size, ov, current \o add, out)
         ELSE PackParts(parts, i + 1, sep, size, ov,
                        OverlapStart(current, ov) \o add,
                        IF current # <<>> THEN Append(out, strip(current)) ELSE out)

\* The body of `for c in chunks` for one segment c.
SplitSegment(c, sep, size, ov) ==
    IF Len(c) <= size THEN <<c>>
    ELSE PackParts(Parts(c, sep), 1, sep, size, ov, <<>>, <<>>)

\* One iteration of `for sep in separators`: new_chunks for the list cs.
RECURSIVE ApplySeparator(_, _, _, _)
ApplySeparator(cs, sep, size, ov) ==
    IF cs = <<>> THEN <<>>
    ELSE SplitSegment(Head(cs), sep, size, ov) \o ApplySeparator(Tail(cs), sep, size, ov)

\* return [c for c in chunks if c.strip()]
RECURSIVE NonBlank(_)
NonBlank(cs) ==
    IF cs = <<>> THEN <<>>
    ELSE IF strip(Head(cs)) # <<>> THEN <<Head(cs)>> \o NonBlank(Tail(cs))
         ELSE NonBlank(Tail(cs))

RECURSIVE ApplyFrom(_, _, _, _)
ApplyFrom(cs, k, size, ov) ==
    IF k > Len(separators) THEN cs
    ELSE ApplyFrom(ApplySeparator(cs, separators[k], size, ov), k + 1, size, ov)

\* _chunk_text(text, chunk_size, overlap) as one function.
chunk_text(t, size, ov) ==
    IF strip(t) = <<>> THEN <<>>
    ELSE NonBlank(ApplyFrom(<<t>>, 1, size, ov))

(***************************************************************************)
(* The parts of the state a specification does not use stay idle.          *)
(***************************************************************************)
NoResult == [kind |-> "none"]
Returned(n, errs) == [kind |-> "return", chunks_added |-> n, errors |-> errs]
Raised(e) == [kind |-> "raise", exc |-> e]

ChunkIdle ==
    /\ text = <<>> /\ chunk_size = 1 /\ overlap = 0
    /\ chunks = <<>> /\ level = 0 /\ cpc = "idle"

IngestIdle ==
    /\ fn = "none" /\ inputs = <<>> /\ pos = 0
    /\ errors = <<>> /\ all_ids = <<>> /\ all_chunks = <<>> /\ all_metadatas = <<>>
    /\ storeOps = <<>> /\ ipc = "idle" /\ result = NoResult

RetrieveIdle ==
    /\ top_k = 0 /\ stored = <<>> /\ n_seen = 0
    /\ queries = <<>> /\ rpc = "idle" /\ retrieved = <<>>

(***************************************************************************)
(* SpecChunk: one call of _chunk_text, one step per separator level.       *)
(***************************************************************************)
InitChunk ==
    /\ text \in Texts
    /\ chunk_size \in 1..MaxSize
    /\ overlap \in 0..(chunk_size - 1)
    /\ chunks = <<>>
    /\ level = 0
    /\ cpc = "call"
    /\ IngestIdle
    /\ storeUp = "up"
    /\ RetrieveIdle

\* if not text or not text.strip(): return []
ChunkEmpty ==
    /\ cpc = "call"
    /\ strip(text) = <<>>
    /\ chunks' = <<>>
    /\ cpc' = "returned"
    /\ UNCHANGED <<text, chunk_size, overlap, level, ingestVars, retrieveVars>>

\* chunks = [text]
ChunkStart ==
    /\ cpc = "call"
    /\ strip(text) # <<>>
    /\ chunks' = <<text>>
    /\ level' = 1
    /\ cpc' = "loop"
    /\ UNCHANGED <<text, chunk_size, overlap, ingestVars, retrieveVars>>

\* one iteration of `for sep in separators`
ChunkPass ==
    /\ cpc = "loop"
    /\ level <= Len(separators)
    /\ chunks' = ApplySeparator(chunks, separators[level], chunk_size, overlap)
    /\ level' = level + 1
    /\ UNCHANGED <<text, chunk_size, overlap, cpc, ingestVars, retrieveVars>>

\* return [c for c in chunks if c.strip()]
ChunkReturn ==
    /\ cpc = "loop"
    /\ level > Len(separators)
    /\ chunks' = NonBlank(chunks)
    /\ cpc' = "returned"
    /\ UNCHANGED <<text, chunk_size, overlap, level, ingestVars, retrieveVars>>

NextChunk == ChunkEmpty \/ ChunkStart \/ ChunkPass \/ ChunkReturn

SpecChunk == InitChunk /\ [][NextChunk]_vars

(***************************************************************************)
(* The file system and the uploads an ingestion invocation can be given.   *)
(* A path is a record; the body of a text file is its text, the body of a  *)
(* PDF the texts page.extract_text() gives for its pages; PdfReader raises *)
(* on a malformed PDF.                                                     *)
(***************************************************************************)
\* LOCALMIND_CHUNK_SIZE and LOCALMIND_CHUNK_OVERLAP, set small so that a
\* file of a few characters spans several chunks.
CHUNK_SIZE == 4
CHUNK_OVERLAP == 1

FileNode(d, st, suf, b, bad) ==
    [type |-> "file", dir |-> d, stem |-> st, suffix |-> suf, body |-> b, malformed |-> bad]

DirNode(d) ==
    [type |-> "dir", dir |-> "", stem |-> d, suffix |-> "", body |-> <<>>, malformed |-> FALSE]

MissingNode(st, suf) ==
    [type |-> "missing", dir |-> "", stem |-> st, suffix |-> suf, body |-> <<>>, malformed |-> FALSE]

Files ==
    { FileNode("docs", "a", ".txt", <<"a", "b", " ", "c", "d", " ", "e">>, FALSE),
      FileNode("docs", "a", ".md", <<"a", ".">>, FALSE),
      FileNode("docs", "p", ".pdf", << <<"a">>, <<" ">>, <<"b">> >>, FALSE),
      FileNode("misc", "a", ".txt", <<"b">>, FALSE),
      FileNode("misc", "bad", ".pdf", <<>>, TRUE),
      FileNode("top", "e", ".txt", <<" ">>, FALSE),
      FileNode("top", "e", ".text", <<>>, FALSE),
      FileNode("top", "e", ".pdf", << <<" ">> >>, FALSE),
      FileNode("top", "E", ".MD", <<"\n">>, FALSE),
      FileNode("top", "n", ".csv", <<"a">>, FALSE) }

Dirs == {DirNode("docs"), DirNode("misc")}

Paths == Files \cup Dirs \cup {MissingNode("gone", ".txt")}

\* The bytes objects an upload can carry: oid is the object's identity, id(raw).
RawObjects ==
    { [oid |-> 1, body |-> <<"a", "b", " ", "c", "d", " ", "e">>, malformed |-> FALSE],
      [oid |-> 2, body |-> <<"b">>, malformed |-> FALSE],
      [oid |-> 3, body |-> <<" ">>, malformed |-> FALSE],
      [oid |-> 4, body |-> <<>>, malformed |-> TRUE] }

\* One element of zip(file_contents, filenames): (name, raw, ext), display_name.
\* The display name is <<stem, suffix>>; the application passes ext = its suffix.
Upload(st, suf, r, e) == [stem |-> st, suffix |-> suf, raw |-> r, ext |-> e]

Uploads ==
    {Upload("a", ".txt", r, ".txt") : r \in {r \in RawObjects : r.oid \in {1, 2, 3}}}
    \cup {Upload("a", ".md", r, ".md") : r \in {r \in RawObjects : r.oid \in {1, 3}}}
    \cup {Upload("s", ".pdf", r, ".pdf") : r \in {r \in RawObjects : r.oid = 4}}
    \cup {Upload("n", ".csv", r, ".csv") : r \in {r \in RawObjects : r.oid = 2}}
    \cup {Upload("u", "", r, "") : r \in {r \in RawObjects : r.oid = 3}}

RECURSIVE SeqsUpTo(_, _)
SeqsUpTo(S, n) ==
    IF n = 0 THEN {<<>>}
    ELSE SeqsUpTo(S, n - 1) \cup
         {Append(q, x) : q \in {q \in SeqsUpTo(S, n - 1) : Len(q) = n - 1}, x \in S}

\* str.lower() on the suffixes of the model.
lower(suf) == IF suf = ".MD" THEN ".md" ELSE suf

\* Path.name
NameOf(p) == <<p.stem, p.suffix>>

\* str(path): the resolved path
PathStr(p) == <<p.dir, p.stem, p.suffix>>

exists(p) == p.type # "missing"
is_file(p) == p.type = "file"

\* for f in p.rglob("*"): the files below the directory p.
rglob(p) == {f \in Files : f.dir = p.stem}

Meta(src, pg) == [source |-> src, page |-> pg]

\* load_pdf: one (text, {source, page}) per page whose text is not blank;
\* page 0 stands for a metadata without the "page" key.
RECURSIVE PdfUnits(_, _, _)
PdfUnits(pages, i, name) ==
    IF i > Len(pages) THEN <<>>
    ELSE (IF strip(pages[i]) # <<>>
          THEN << [text |-> pages[i], meta |-> Meta(name, i)] >>
          ELSE <<>>) \o PdfUnits(pages, i + 1, name)

load_pdf(body, name) == PdfUnits(body, 1, name)

\* load_text
load_text(body, name) ==
    IF strip(body) = <<>> THEN <<>>
    ELSE << [text |-> body, meta |-> Meta(name, 0)] >>

\* Whether load_document raises: PdfReader on a malformed PDF.
LoaderRaises(present, suf, bad) == present /\ lower(suf) = ".pdf" /\ bad

\* load_document(path), for a path that does not make the loader raise.
load_document(present, suf, body, name) ==
    IF ~present THEN <<>>
    ELSE IF lower(suf) = ".pdf" THEN load_pdf(body, name)
    ELSE IF lower(suf) \in {".txt", ".md", ".text"} THEN load_text(body, name)
    ELSE <<>>

\* for text, meta in items: for chunk in _chunk_text(text): ... in order.
RECURSIVE WithMeta(_, _)
WithMeta(cs, m) ==
    IF cs = <<>> THEN <<>>
    ELSE << [chunk |-> Head(cs), meta |-> m] >> \o WithMeta(Tail(cs), m)

RECURSIVE ChunksOfItems(_)
ChunksOfItems(items) ==
    IF items = <<>> THEN <<>>
    ELSE WithMeta(chunk_text(Head(items).text, CHUNK_SIZE, CHUNK_OVERLAP), Head(items).meta)
         \o ChunksOfItems(Tail(items))

\* f"{base_name}_{idx}": idx is a decimal number, so the string determines
\* the pair (base_name, idx) and the pair stands for it.
PathDocId(base, idx) == <<base, idx>>

\* f"{base_name}_{idx}_{id(raw)}"
UploadDocId(base, idx, raw) == <<base, idx, raw.oid>>

\* The accumulators of an invocation, and the exception that ended it if any.
Acc(ids, cs, ms, errs, e) ==
    [ids |-> ids, chunks |-> cs, metas |-> ms, errors |-> errs, exc |-> e]

\* The suffixes add_file reports as "Empty or unreadable".
ReportedSuffixes == {".pdf", ".txt", ".md"}

\* The suffixes the directory scan of ingest_paths picks up.
ScannedSuffixes == {".pdf", ".txt", ".md", ".text"}

\* ingest_paths.add_file(file_path); nothing runs after an exception.
add_file(acc, f) ==
    IF acc.exc # "none" THEN acc
    ELSE IF LoaderRaises(exists(f), f.suffix, f.malformed)
    THEN [acc EXCEPT !.exc = "LoaderFailure"]
    ELSE LET items == load_document(exists(f), f.suffix, f.body, NameOf(f))
             cms == ChunksOfItems(items)
         IN  IF items = <<>>
             THEN IF lower(f.suffix) \in ReportedSuffixes
                  THEN [acc EXCEPT !.errors = Append(@, <<"Empty or unreadable", PathStr(f)>>)]
                  ELSE acc
             ELSE [acc EXCEPT
                      !.ids = @ \o [i \in 1..Len(cms) |-> PathDocId(f.stem, i - 1)],
                      !.chunks = @ \o [i \in 1..Len(cms) |-> cms[i].chunk],
                      !.metas = @ \o [i \in 1..Len(cms) |-> cms[i].meta]]

RECURSIVE AddFiles(_, _)
AddFiles(acc, fs) ==
    IF fs = <<>> THEN acc ELSE AddFiles(add_file(acc, Head(fs)), Tail(fs))

\* The orders in which rglob can yield the files of S.
Orders(S) == {q \in [1..Cardinality(S) -> S] : \A i, j \in DOMAIN q : i # j => q[i] # q[j]}

\* The files of a scan order the directory loop hands to add_file.
IsScanned(f) == lower(f.suffix) \in ScannedSuffixes

\* One iteration of `for p in paths` of ingest_paths, the directory yielding
\* its files in the order `order`.
PathIteration(acc, p, order) ==
    IF ~exists(p) THEN [acc EXCEPT !.errors = Append(@, <<"Not found", PathStr(p)>>)]
    ELSE IF is_file(p) THEN add_file(acc, p)
    ELSE AddFiles(acc, SelectSeq(order, IsScanned))

\* One iteration of the loop of ingest_files_in_memory: the upload is written
\* to a temporary file with suffix `ext or ".txt"` and loaded from there.
UploadIteration(acc, u) ==
    LET suf == IF u.ext = "" THEN ".txt" ELSE u.ext
        display_name == <<u.stem, u.suffix>>
    IN  IF LoaderRaises(TRUE, suf, u.raw.malformed)
        THEN [acc EXCEPT !.errors = Append(@, <<"exception", display_name>>)]
        ELSE LET items == load_document(TRUE, suf, u.raw.body, <<"tmp", suf>>)
                 cms == ChunksOfItems(items)
             IN  IF items = <<>>
                 THEN [acc EXCEPT !.errors = Append(@, <<"Empty or unreadable", display_name>>)]
                 ELSE [acc EXCEPT
                          !.ids = @ \o [i \in 1..Len(cms) |-> UploadDocId(u.stem, i - 1, u.raw)],
                          !.chunks = @ \o [i \in 1..Len(cms) |-> cms[i].chunk],
                          !.metas = @ \o [i \in 1..Len(cms) |->
                                             [cms[i].meta EXCEPT !.source = display_name]]]

(***************************************************************************)
(* SpecIngest: one invocation of ingest_paths or ingest_files_in_memory.   *)
(***************************************************************************)
InitIngest ==
    /\ fn \in {"ingest_paths", "ingest_files_in_memory"}
    /\ inputs \in (IF fn = "ingest_paths" THEN SeqsUpTo(Paths, MaxBatch)
                   ELSE SeqsUpTo(Uploads, MaxBatch))
    /\ pos = 1
    /\ errors = <<>>
    /\ all_ids = <<>>
    /\ all_chunks = <<>>
    /\ all_metadatas = <<>>
    /\ storeUp \in {"up", "down", "embed_down"}
    /\ storeOps = <<>>
    /\ ipc = "open"
    /\ result = NoResult
    /\ ChunkIdle
    /\ RetrieveIdle

OpenOp == [op |-> "get_or_create_collection"]
AddOp(ids, docs, metas, done) ==
    [op |-> "add", ids |-> ids, documents |-> docs, metadatas |-> metas, processed |-> done]

\* client, collection = get_chroma_client_and_collection(): the first
\* statement of both entry points.
IngestOpen ==
    /\ ipc = "open"
    /\ storeUp # "down"
    /\ storeOps' = Append(storeOps, OpenOp)
    /\ ipc' = "loop"
    /\ UNCHANGED <<fn, inputs, pos, errors, all_ids, all_chunks, all_metadatas, storeUp, result>>
    /\ UNCHANGED <<chunkVars, retrieveVars>>

\* The same statement when the store cannot be opened: the exception leaves
\* the entry point.
IngestOpenFails ==
    /\ ipc = "open"
    /\ storeUp = "down"
    /\ storeOps' = Append(storeOps, OpenOp)
    /\ ipc' = "raised"
    /\ result' = Raised("StoreUnavailable")
    /\ UNCHANGED <<fn, inputs, pos, errors, all_ids, all_chunks, all_metadatas, storeUp>>
    /\ UNCHANGED <<chunkVars, retrieveVars>>

CurrentAcc == Acc(all_ids, all_chunks, all_metadatas, errors, "none")

StoreAcc(acc) ==
    /\ all_ids' = acc.ids
    /\ all_chunks' = acc.chunks
    /\ all_metadatas' = acc.metas
    /\ errors' = acc.errors
    /\ pos' = pos + 1
    /\ IF acc.exc = "none"
       THEN UNCHANGED <<ipc, result>>
       ELSE ipc' = "raised" /\ result' = Raised(acc.exc)

\* One iteration of `for p in paths`.
PathsStep ==
    /\ fn = "ingest_paths"
    /\ ipc = "loop"
    /\ pos <= Len(inputs)
    /\ \E order \in Orders(rglob(inputs[pos])) :
          StoreAcc(PathIteration(CurrentAcc, inputs[pos], order))
    /\ UNCHANGED <<fn, inputs, storeUp, storeOps>>
    /\ UNCHANGED <<chunkVars, retrieveVars>>

\* One iteration of `for (name, raw, ext), display_name in zip(...)`.
UploadsStep ==
    /\ fn = "ingest_files_in_memory"
    /\ ipc = "loop"
    /\ pos <= Len(inputs)
    /\ StoreAcc(UploadIteration(CurrentAcc, inputs[pos]))
    /\ UNCHANGED <<fn, inputs, storeUp, storeOps>>
    /\ UNCHANGED <<chunkVars, retrieveVars>>

\* if not all_chunks: return 0, errors
IngestReturnEmpty ==
    /\ ipc = "loop"
    /\ pos > Len(inputs)
    /\ all_chunks = <<>>
    /\ ipc' = "returned"
    /\ result' = Returned(0, errors)
    /\ UNCHANGED <<fn, inputs, pos, errors, all_ids, all_chunks, all_metadatas, storeUp, storeOps>>
    /\ UNCHANGED <<chunkVars, retrieveVars>>

\* collection.add(ids=all_ids, documents=all_chunks, metadatas=all_metadatas)
\* and the return: len(all_ids) in ingest_paths, len(all_chunks) in
\* ingest_files_in_memory.
IngestAdd ==
    /\ ipc = "loop"
    /\ pos > Len(inputs)
    /\ all_chunks # <<>>
    /\ storeUp = "up"
    /\ storeOps' = Append(storeOps, AddOp(all_ids, all_chunks, all_metadatas, pos - 1))
    /\ ipc' = "returned"
    /\ result' = Returned(IF fn = "ingest_paths" THEN Len(all_ids) ELSE Len(all_chunks), errors)
    /\ UNCHANGED <<fn, inputs, pos, errors, all_ids, all_chunks, all_metadatas, storeUp>>
    /\ UNCHANGED <<chunkVars, retrieveVars>>

\* The add call when the collection cannot embed: its exception leaves the
\* entry point.
IngestAddFails ==
    /\ ipc = "loop"
    /\ pos > Len(inputs)
    /\ all_chunks # <<>>
    /\ storeUp = "embed_down"
    /\ storeOps' = Append(storeOps, AddOp(all_ids, all_chunks, all_metadatas, pos - 1))
    /\ ipc' = "raised"
    /\ result' = Raised("StoreUnavailable")
    /\ UNCHANGED <<fn, inputs, pos, errors, all_ids, all_chunks, all_metadatas, storeUp>>
    /\ UNCHANGED <<chunkVars, retrieveVars>>

NextIngest ==
    \/ IngestOpen
    \/ IngestOpenFails
    \/ PathsStep
    \/ UploadsStep
    \/ IngestReturnEmpty
    \/ IngestAdd
    \/ IngestAddFails

SpecIngest == InitIngest /\ [][NextIngest]_vars

(***************************************************************************)
(* SpecRetrieve: one call of retrieve(question, top_k) against a           *)
(* collection that other sessions may add to meanwhile.                    *)
(***************************************************************************)
\* The neighbour of rank i for the question: (document, metadata, distance).
Neighbour(i) == <<<<"doc", i>>, Meta(<<"a", ".txt">>, i), i>>

\* The collection when it holds n chunks, best match first.
Collection(n) == [i \in 1..n |-> Neighbour(i)]

InitRetrieve ==
    /\ top_k \in 0..MaxTopK
    /\ stored \in {Collection(n) : n \in 0..MaxStored}
    /\ n_seen = 0
    /\ queries = <<>>
    /\ rpc = "open"
    /\ retrieved = <<>>
    /\ storeUp \in {"up", "down", "embed_down"}
    /\ ChunkIdle
    /\ IngestIdle

\* collection = _get_collection()
RetrieveOpen ==
    /\ rpc = "open"
    /\ storeUp # "down"
    /\ rpc' = "count"
    /\ UNCHANGED <<top_k, stored, n_seen, queries, retrieved, chunkVars, ingestVars>>

\* The same statement when the store cannot be opened.
RetrieveOpenFails ==
    /\ rpc = "open"
    /\ storeUp = "down"
    /\ rpc' = "raised"
    /\ UNCHANGED <<top_k, stored, n_seen, queries, retrieved, chunkVars, ingestVars>>

\* if collection.count() == 0: return []
RetrieveEmpty ==
    /\ rpc = "count"
    /\ Len(stored) = 0
    /\ n_seen' = 0
    /\ retrieved' = <<>>
    /\ rpc' = "returned"
    /\ UNCHANGED <<top_k, stored, queries, chunkVars, ingestVars>>

\* The same test when the collection is not empty.
RetrieveNonEmpty ==
    /\ rpc = "count"
    /\ Len(stored) > 0
    /\ n_seen' = Len(stored)
    /\ rpc' = "query"
    /\ UNCHANGED <<top_k, stored, queries, retrieved, chunkVars, ingestVars>>

\* n_results=min(top_k, collection.count()): the second count() call.
NResults == Min2(top_k, Len(stored))

QueryCall(n, returned) == [n_results |-> n, count |-> Len(stored), returned |-> returned]

\* collection.query(...) answering, and return list(zip(docs, metas, dists)).
RetrieveQuery ==
    /\ rpc = "query"
    /\ storeUp = "up"
    /\ NResults > 0
    /\ queries' = Append(queries, QueryCall(NResults, SubSeq(stored, 1, NResults)))
    /\ retrieved' = SubSeq(stored, 1, NResults)
    /\ rpc' = "returned"
    /\ UNCHANGED <<top_k, stored, n_seen, chunkVars, ingestVars>>

\* collection.query(...) with n_results = 0, which the store may answer with
\* no neighbour ...
RetrieveQueryZero ==
    /\ rpc = "query"
    /\ storeUp = "up"
    /\ NResults = 0
    /\ queries' = Append(queries, QueryCall(0, <<>>))
    /\ retrieved' = <<>>
    /\ rpc' = "returned"
    /\ UNCHANGED <<top_k, stored, n_seen, chunkVars, ingestVars>>

\* ... or reject; and collection.query(...) when the question cannot be
\* embedded. The exception leaves retrieve.
RetrieveQueryFails ==
    /\ rpc = "query"
    /\ (storeUp = "embed_down" \/ NResults = 0)
    /\ queries' = Append(queries, QueryCall(NResults, <<>>))
    /\ rpc' = "raised"
    /\ UNCHANGED <<top_k, stored, n_seen, retrieved, chunkVars, ingestVars>>

\* Another session's ingestion adds a chunk to the collection during the call.
StoreGrows ==
    /\ rpc \in {"count", "query"}
    /\ Len(stored) < MaxStored
    /\ stored' = Collection(Len(stored) + 1)
    /\ UNCHANGED <<top_k, n_seen, queries, rpc, retrieved, chunkVars, ingestVars>>

NextRetrieve ==
    \/ RetrieveOpen
    \/ RetrieveOpenFails
    \/ RetrieveEmpty
    \/ RetrieveNonEmpty
    \/ RetrieveQuery
    \/ RetrieveQueryZero
    \/ RetrieveQueryFails
    \/ StoreGrows

SpecRetrieve == InitRetrieve /\ [][NextRetrieve]_vars

(***************************************************************************)
(* Properties of _chunk_text.                                              *)
(***************************************************************************)
IsInkChar(ch) == ch \notin Whitespace

\* s with every whitespace character removed.
NoWs(s) == SelectSeq(s, IsInkChar)

IsNonEmpty(s) == s # <<>>

\* The whitespace-delimited words of s, in order.
WordsOf(s) == SelectSeq(re_split(s), IsNonEmpty)

Range(f) == {f[i] : i \in DOMAIN f}

IsSubstring(p, s) ==
    \E i \in 0..(Len(s) - Len(p)) : SubSeq(s, i + 1, i + Len(p)) = p

RECURSIVE Concat(_)
Concat(cs) == IF cs = <<>> THEN <<>> ELSE Head(cs) \o Concat(Tail(cs))

RECURSIVE NoWsEach(_)
NoWsEach(cs) == IF cs = <<>> THEN <<>> ELSE <<NoWs(Head(cs))>> \o NoWsEach(Tail(cs))

\* The positions of t that can be reached after the chunk c, from a position
\* of P: c is k <= ov characters that occur in t before the position,
\* followed by the next Len(c) - k characters of t.
CoverStep(t, c, P, ov) ==
    {q \in 0..Len(t) :
        \E p \in P :
            \E k \in 0..Min2(Min2(p, Len(c)), ov) :
                /\ q = p + Len(c) - k
                /\ SubSeq(c, k + 1, Len(c)) = SubSeq(t, p + 1, q)
                /\ IsSubstring(SubSeq(c, 1, k), SubSeq(t, 1, p))}

RECURSIVE CoverEnds(_, _, _, _)
CoverEnds(t, cs, P, ov) ==
    IF cs = <<>> THEN P
    ELSE CoverEnds(t, Tail(cs), CoverStep(t, Head(cs), P, ov), ov)

\* The chunks cs, whitespace removed, cover t, whitespace removed, from left
\* to right without a gap, each chunk repeating at most ov earlier characters
\* at its start.
Covers(t, cs, ov) == Len(NoWs(t)) \in CoverEnds(NoWs(t), NoWsEach(cs), {0}, ov)

\* C1: every returned chunk is at most chunk_size long, or is one word of the
\* input that is itself longer than chunk_size.
C1_ChunkWithinSize ==
    cpc = "returned" =>
        \A i \in DOMAIN chunks :
            \/ Len(chunks[i]) <= chunk_size
            \/ chunks[i] \in Range(WordsOf(text))

\* C5: the returned chunks preserve every non-whitespace character of the
\* input in order: they cover the input left to right without a gap, the only
\* repetition being at most `overlap` earlier characters at a chunk's start.
C5_PreservesInk ==
    cpc = "returned" => Covers(text, chunks, overlap)

\* C5 witness: a call returned several chunks, one of which repeats earlier
\* characters, from a text that holds whitespace.
C5_Witness ==
    /\ cpc = "returned"
    /\ Len(chunks) >= 2
    /\ overlap > 0
    /\ NoWs(text) # text
    /\ Concat(NoWsEach(chunks)) # NoWs(text)

\* C6: with overlap > 0, the trailing `overlap` characters of every returned
\* chunk (the whole chunk if shorter) start the next returned chunk, whitespace
\* aside.
C6_ConsecutiveStitched ==
    (cpc = "returned" /\ overlap > 0) =>
        \A i \in 1..(Len(chunks) - 1) :
            StartsWith(NoWs(chunks[i + 1]), NoWs(OverlapStart(chunks[i], overlap)))

\* C10: the whitespace level keeps word boundaries: every whitespace-delimited
\* word of a returned chunk lies within one word of the input (words are never
\* joined without a space between them).
C10_WordBoundariesKept ==
    cpc = "returned" =>
        \A i \in DOMAIN chunks :
            \A w \in Range(WordsOf(chunks[i])) :
                \E v \in Range(WordsOf(text)) : IsSubstring(w, v)

(***************************************************************************)
(* Properties of the ingestion pipeline.                                   *)
(***************************************************************************)
Ended == ipc \in {"returned", "raised"}

AddOps == SelectSeq(storeOps, LAMBDA o : o.op = "add")

\* The suffix the loader sees for an input, whether the input is a file the
\* loader is run on, whether the loader raises on it, and what it yields.
InputSuffix(x) ==
    IF fn = "ingest_paths" THEN lower(x.suffix)
    ELSE lower(IF x.ext = "" THEN ".txt" ELSE x.ext)

InputIsFile(x) == IF fn = "ingest_paths" THEN is_file(x) ELSE TRUE

InputRaises(x) ==
    IF fn = "ingest_paths" THEN LoaderRaises(exists(x), x.suffix, x.malformed)
    ELSE LoaderRaises(TRUE, InputSuffix(x), x.raw.malformed)

InputItems(x) ==
    IF fn = "ingest_paths" THEN load_document(exists(x), x.suffix, x.body, NameOf(x))
    ELSE load_document(TRUE, InputSuffix(x), x.raw.body, <<x.stem, x.suffix>>)

\* The file name an error string about the input x has to mention.
InputName(x) == IF fn = "ingest_paths" THEN PathStr(x) ELSE <<x.stem, x.suffix>>

\* The document types the Document Loader accepts.
RecognizedSuffixes == {".pdf", ".txt", ".md", ".text"}

\* C2: the identifiers accumulated in one invocation, which are the ones
\* passed to collection.add, are pairwise distinct.
C2_BatchIdsDistinct ==
    \A i, j \in DOMAIN all_ids : i # j => all_ids[i] # all_ids[j]

\* C3: no ingestion invocation ends by propagating a loader's exception: a
\* document that fails to load costs one error string, never the batch.
C3_BadDocumentNeverAborts ==
    ~(ipc = "raised" /\ result = Raised("LoaderFailure"))

\* C4: an invocation that accumulated at least one chunk has, when it ends,
\* made exactly one add call, issued after the whole batch was processed,
\* carrying all accumulated ids, texts and metadatas, equally long; a returned
\* chunks_added is the number of chunks of that call.
C4_OneAddAfterBatch ==
    (Ended /\ all_chunks # <<>>) =>
        /\ Len(AddOps) = 1
        /\ AddOps[1].processed = Len(inputs)
        /\ AddOps[1].ids = all_ids
        /\ AddOps[1].documents = all_chunks
        /\ AddOps[1].metadatas = all_metadatas
        /\ Len(AddOps[1].ids) = Len(AddOps[1].documents)
        /\ Len(AddOps[1].ids) = Len(AddOps[1].metadatas)
        /\ (ipc = "returned" => result.chunks_added = Len(AddOps[1].documents))

\* The part of C4 that concerns the invocations that return.
AddOnceWhenReturned ==
    (ipc = "returned" /\ all_chunks # <<>>) =>
        /\ Len(AddOps) = 1
        /\ AddOps[1].processed = Len(inputs)
        /\ AddOps[1].ids = all_ids
        /\ AddOps[1].documents = all_chunks
        /\ AddOps[1].metadatas = all_metadatas
        /\ Len(all_ids) = Len(all_chunks)
        /\ Len(all_ids) = Len(all_metadatas)
        /\ result.chunks_added = Len(all_chunks)

\* C7: ingesting one file of a recognized type whose loader yields nothing
\* returns chunks_added = 0 and exactly one error string naming the file; one
\* file of an unsupported type adds no error string.
C7_EmptyDocumentReported ==
    (ipc = "returned" /\ Len(inputs) = 1 /\ InputIsFile(inputs[1])) =>
        LET x == inputs[1] IN
        /\ (InputSuffix(x) \in RecognizedSuffixes /\ ~InputRaises(x) /\ InputItems(x) = <<>>) =>
               /\ result.chunks_added = 0
               /\ Len(result.errors) = 1
               /\ result.errors[1][2] = InputName(x)
        /\ (InputSuffix(x) \notin RecognizedSuffixes) => result.errors = <<>>

\* C9: an invocation that accumulated no chunk ends by returning, and has
\* performed no storage operation at all.
C9_NoStorageWhenEmpty ==
    (Ended /\ all_chunks = <<>>) => (ipc = "returned" /\ storeOps = <<>>)

(***************************************************************************)
(* Properties of the retriever.                                            *)
(***************************************************************************)
\* What retrieve does once it has returned, the argument top_k aside.
RetrieveOutcome ==
    /\ (rpc = "returned" /\ n_seen = 0) => (queries = <<>> /\ retrieved = <<>>)
    /\ (rpc = "returned" /\ n_seen > 0) =>
           /\ Len(queries) = 1
           /\ queries[1].n_results = Min2(top_k, queries[1].count)
           /\ retrieved = queries[1].returned

\* The part of C8 that concerns the calls with top_k >= 1.
QueryPositiveForPositiveTopK ==
    top_k >= 1 => (RetrieveOutcome /\ \A i \in DOMAIN queries : queries[i].n_results > 0)

\* C8: retrieve never calls query with n_results = 0; on an empty store it
\* returns an empty list without a query; otherwise it makes exactly one
\* query, with n_results = min(top_k, stored count), and returns every
\* neighbour the store returned, in the store's order.
C8_QueryNeverZero ==
    /\ \A i \in DOMAIN queries : queries[i].n_results # 0
    /\ RetrieveOutcome

====
